---- MODULE Spec2Model ----
(***************************************************************************)
(* bsl::safe_integral<T> (include/bsl/safe_integral.hpp): an integral      *)
(* m_val paired with a sticky error flag m_error.  One instance `a` is     *)
(* driven through the public operations; every call is recorded (op, lhs,  *)
(* rhs, ret, retb, native) so that properties of the call can be stated.   *)
(***************************************************************************)
EXTENDS Integers, FiniteSets, Sequences, TLC

\* width in bits of the instantiated integral type T (model bound)
Bits == 4

VARIABLES
    T,              \* template parameter: [is_signed, bits]
    BSL_PERFORCE,   \* build flag tested by `if constexpr (BSL_PERFORCE)`
    a,              \* the instance: [m_val, m_error]
    op,             \* name of the last operation called
    lhs,            \* left operand / *this before the call
    rhs,            \* right operand of the call
    ret,            \* safe_integral returned (or *this after the call)
    retb,           \* bool returned by an observer or comparison
    retv,           \* raw T returned by get()
    native,         \* native instruction reached by the call: none/div/rem
    a2,             \* twin instance, driven by the same calls as a
    ret2,           \* safe_integral returned to the twin
    retb2,          \* bool returned to the twin
    retv2,          \* raw T returned to the twin
    pc,             \* position in example_safe_integral_overview: operators evaluated
    as_written,     \* the operands drawn so far are val1..val6 of the example
    errc,           \* a basic_errc_type<> instance: [m_errc]
    ifmap,          \* a bsl::ifmap instance: [m_file, m_view, m_data]
    os,             \* the handles the system holds open and the CloseHandle calls made
    life            \* whether the ifmap has been constructed and destroyed

vars == <<T, BSL_PERFORCE, a, op, lhs, rhs, ret, retb, retv, native, a2, ret2, retb2, retv2, pc, as_written, errc, ifmap, os, life>>

\* the instantiations explored: safe_integral<intN> and safe_integral<uintN>
Types == {[is_signed |-> TRUE, bits |-> Bits], [is_signed |-> FALSE, bits |-> Bits]}

RECURSIVE pow2(_)
pow2(n) == IF n = 0 THEN 1 ELSE 2 * pow2(n - 1)

\* numeric_limits<value_type>::max()
max == IF T.is_signed THEN pow2(T.bits - 1) - 1 ELSE pow2(T.bits) - 1

\* numeric_limits<value_type>::min()
min == IF T.is_signed THEN 0 - pow2(T.bits - 1) ELSE 0

\* the representable values of T
Range == min..max

\* conversion of an exact integer to T (two's complement wrap)
wrap(x) == ((x - min) % pow2(T.bits)) + min

is_signed_type == T.is_signed

is_unsigned_type == ~T.is_signed

\* a safe_integral object
Obj(v, e) == [m_val |-> v, m_error |-> e]

\* operands as recorded for a call: a safe_integral, a raw T, or none
Safe(x) == [kind |-> "safe", m_val |-> x.m_val, m_error |-> x.m_error]

Raw(v) == [kind |-> "raw", m_val |-> v, m_error |-> FALSE]

None == [kind |-> "none", m_val |-> 0, m_error |-> FALSE]

\* the content of the storage an object is created in
Storage(x) == [kind |-> "storage", m_val |-> x.m_val, m_error |-> x.m_error]

SafeOperands == [m_val : Range, m_error : BOOLEAN]

RawOperands == Range

integral_overflow_underflow_wrap_error == TRUE

\* __builtin_{add,sub,mul}_overflow on the exact result x
intrinsic_overflow(x) == [res |-> wrap(x), ovf |-> (x < min \/ x > max)]

\* add check that detects the overflow above max() only
builtin_add_overflow_upper(l, r) ==
    IF BSL_PERFORCE
    THEN [res |-> wrap(l + r), ovf |-> TRUE]
    ELSE [res |-> wrap(l + r), ovf |-> (l + r > max)]

\* builtin_{add,sub,mul}_overflow: the constant-evaluated and the run-time
\* path both return what the intrinsic returns; the BSL_PERFORCE path stores
\* the result and returns true
builtin_add_overflow(l, r) ==
    IF BSL_PERFORCE
    THEN [res |-> wrap(l + r), ovf |-> TRUE]
    ELSE intrinsic_overflow(l + r)

builtin_sub_overflow(l, r) ==
    IF BSL_PERFORCE
    THEN [res |-> wrap(l - r), ovf |-> TRUE]
    ELSE intrinsic_overflow(l - r)

builtin_mul_overflow(l, r) ==
    IF BSL_PERFORCE
    THEN [res |-> wrap(l * r), ovf |-> TRUE]
    ELSE intrinsic_overflow(l * r)

\* constructor initialising m_error from val
ctor_flagged(val) == Obj(val, val # 0)

\* safe_integral(U val)
ctor(val) == Obj(val, FALSE)

\* safe_integral(U val, bool err)
ctor_err(val, err) == Obj(val, err)

\* zero-initialisation of the storage of a safe_integral: what a global in
\* the BSS section and a value-initialised `safe_integral<T> a{}` start from
zero_initialized == Obj(0, FALSE)

\* default constructor that starts in the failed state
default_ctor_failed(storage) == Obj(storage.m_val, TRUE)

\* safe_integral() = default: m_val and m_error have no initialisers and the
\* constructor writes neither, the object is what its storage holds
default_ctor(storage) == storage

\* operator= that stores val and leaves m_error as it is
operator_assign_keep(self, val) == Obj(val, self.m_error)

\* operator=(U val)
operator_assign(self, val) == Obj(val, FALSE)

\* get() without the error check
get_payload(self) == self.m_val

get(self) == IF self.m_error THEN 0 ELSE self.m_val

operator_bool(self) == ~self.m_error

failure(self) == self.m_error

\* set_failure() that flips m_error
set_failure_toggle(self) == [self EXCEPT !.m_error = ~self.m_error]

set_failure(self) == [self EXCEPT !.m_error = TRUE]

one(err) == ctor_err(1, err)

zero(err) == ctor_err(0, err)

\* ---- rational operators ----

\* == comparing get() only
operator_eq_values(l, r) == get(l) = get(r)

operator_eq(l, r) == (get(l) = get(r)) /\ (~failure(l)) /\ (~failure(r))

operator_eq_sr(l, r) == (get(l) = r) /\ (~failure(l))

operator_eq_rs(l, r) == (l = get(r)) /\ (~failure(r))

\* != comparing get() only
operator_ne_values(l, r) == get(l) # get(r)

operator_ne(l, r) == ~operator_eq(l, r)

operator_ne_sr(l, r) == ~operator_eq_sr(l, r)

operator_ne_rs(l, r) == ~operator_eq_rs(l, r)

operator_lt(l, r) == (get(l) < get(r)) /\ (~failure(l)) /\ (~failure(r))

operator_lt_sr(l, r) == (get(l) < r) /\ (~failure(l))

operator_lt_rs(l, r) == (l < get(r)) /\ (~failure(r))

\* <= written as the negation of >
operator_le_not_gt(l, r) == ~((get(l) > get(r)) /\ (~failure(l)) /\ (~failure(r)))

operator_le(l, r) == (get(l) <= get(r)) /\ (~failure(l)) /\ (~failure(r))

operator_le_sr(l, r) == (get(l) <= r) /\ (~failure(l))

operator_le_rs(l, r) == (l <= get(r)) /\ (~failure(r))

operator_gt(l, r) == (get(l) > get(r)) /\ (~failure(l)) /\ (~failure(r))

operator_gt_sr(l, r) == (get(l) > r) /\ (~failure(l))

operator_gt_rs(l, r) == (l > get(r)) /\ (~failure(r))

operator_ge(l, r) == (get(l) >= get(r)) /\ (~failure(l)) /\ (~failure(r))

operator_ge_sr(l, r) == (get(l) >= r) /\ (~failure(l))

operator_ge_rs(l, r) == (l >= get(r)) /\ (~failure(r))

\* ---- members built on the rational operators ----

\* max(other) that tests this->failure() only
max_safe_own(self, other) ==
    IF failure(self)
    THEN zero(TRUE)
    ELSE ctor(IF self.m_val < other.m_val THEN other.m_val ELSE self.m_val)

max_safe(self, other) ==
    IF failure(self) \/ failure(other)
    THEN zero(TRUE)
    ELSE ctor(IF self.m_val < other.m_val THEN other.m_val ELSE self.m_val)

max_raw(self, other) ==
    IF failure(self)
    THEN zero(TRUE)
    ELSE ctor(IF self.m_val < other THEN other ELSE self.m_val)

min_safe(self, other) ==
    IF failure(self) \/ failure(other)
    THEN zero(TRUE)
    ELSE ctor(IF self.m_val < other.m_val THEN self.m_val ELSE other.m_val)

\* min(U) with the branches of the conditional exchanged
min_raw_larger(self, other) ==
    IF failure(self)
    THEN zero(TRUE)
    ELSE ctor(IF self.m_val < other THEN other ELSE self.m_val)

min_raw(self, other) ==
    IF failure(self)
    THEN zero(TRUE)
    ELSE ctor(IF self.m_val < other THEN self.m_val ELSE other)

is_pos(self) == operator_lt(zero(FALSE), self)

is_neg(self) == IF is_unsigned_type THEN FALSE ELSE operator_gt(zero(FALSE), self)

is_zero(self) == IF self.m_error THEN TRUE ELSE get(zero(FALSE)) = self.m_val

\* is_max() comparing m_val, not the checked value
is_max_payload(self) == max = self.m_val

is_max(self) == operator_eq_rs(max, self)

\* is_min() comparing the stored value
is_min_payload(self) == min = self.m_val

is_min(self) == operator_eq_rs(min, self)

\* ---- compound arithmetic (members) ----

\* += that looks at the overflow only, not at rhs.failure()
operator_add_assign_own(self, r) ==
    LET o == builtin_add_overflow(self.m_val, r.m_val)
    IN  Obj(o.res, self.m_error \/ o.ovf)

operator_add_assign(self, r) ==
    LET o == builtin_add_overflow(self.m_val, r.m_val)
    IN  Obj(o.res, self.m_error \/ (o.ovf \/ failure(r)))

operator_add_assign_raw(self, r) ==
    LET o == builtin_add_overflow(self.m_val, r)
    IN  Obj(o.res, self.m_error \/ o.ovf)

operator_sub_assign(self, r) ==
    LET o == builtin_sub_overflow(self.m_val, r.m_val)
    IN  Obj(o.res, self.m_error \/ (o.ovf \/ failure(r)))

\* -=(U) that overwrites m_error with the overflow of this step
operator_sub_assign_raw_fresh(self, r) ==
    LET o == builtin_sub_overflow(self.m_val, r)
    IN  Obj(o.res, o.ovf)

operator_sub_assign_raw(self, r) ==
    LET o == builtin_sub_overflow(self.m_val, r)
    IN  Obj(o.res, self.m_error \/ o.ovf)

\* *= that looks at the overflow only, not at rhs.failure()
operator_mul_assign_own(self, r) ==
    LET o == builtin_mul_overflow(self.m_val, r.m_val)
    IN  Obj(o.res, self.m_error \/ o.ovf)

operator_mul_assign(self, r) ==
    LET o == builtin_mul_overflow(self.m_val, r.m_val)
    IN  Obj(o.res, self.m_error \/ (o.ovf \/ failure(r)))

operator_mul_assign_raw(self, r) ==
    LET o == builtin_mul_overflow(self.m_val, r)
    IN  Obj(o.res, self.m_error \/ o.ovf)

\* ++ that overwrites m_error with the overflow of this step
operator_inc_fresh(self) ==
    LET o == builtin_add_overflow(self.m_val, get(one(FALSE)))
    IN  Obj(o.res, o.ovf)

operator_inc(self) ==
    LET o == builtin_add_overflow(self.m_val, get(one(FALSE)))
    IN  Obj(o.res, self.m_error \/ o.ovf)

operator_dec(self) ==
    LET o == builtin_sub_overflow(self.m_val, get(one(FALSE)))
    IN  Obj(o.res, self.m_error \/ o.ovf)

\* ---- binary + - * and unary - (free functions: copy, then compound) ----

operator_add(l, r) == operator_add_assign(l, r)

operator_add_sr(l, r) == operator_add(l, ctor(r))

operator_add_rs(l, r) == operator_add(ctor(l), r)

operator_sub(l, r) == operator_sub_assign(l, r)

operator_sub_sr(l, r) == operator_sub(l, ctor(r))

operator_sub_rs(l, r) == operator_sub(ctor(l), r)

operator_mul(l, r) == operator_mul_assign(l, r)

operator_mul_sr(l, r) == operator_mul(l, ctor(r))

operator_mul_rs(l, r) == operator_mul(ctor(l), r)

\* unary - by the native negation, without the checked subtraction
operator_neg_native(r) == ctor_err(wrap(0 - get(r)), failure(r))

operator_neg(r) == operator_sub(zero(FALSE), r)

\* ---- division and remainder ----

\* quotient whose sign is taken from the dividend alone
trunc_div_dividend(l, r) ==
    LET al == IF l < 0 THEN 0 - l ELSE l
        ar == IF r < 0 THEN 0 - r ELSE r
        q  == al \div ar
    IN  IF l < 0 THEN 0 - q ELSE q

\* exact quotient truncated toward zero (the native / of C++)
trunc_div(l, r) ==
    LET al == IF l < 0 THEN 0 - l ELSE l
        ar == IF r < 0 THEN 0 - r ELSE r
        q  == al \div ar
    IN  IF (l < 0) = (r < 0) THEN q ELSE 0 - q

\* the native division has no defined result for these operands
native_undefined(l, r) == (r = 0) \/ (is_signed_type /\ l = min /\ r = 0 - 1)

\* m_val /= rhs.m_val; u is the outcome when the behaviour is undefined
native_div(l, r, u) == IF native_undefined(l, r) THEN u ELSE trunc_div(l, r)

\* m_val %= rhs.m_val; u is the outcome when the behaviour is undefined
native_rem(l, r, u) == IF native_undefined(l, r) THEN u ELSE l - (r * trunc_div(l, r))

\* result of a call that may reach a native instruction
Out(o, n) == [obj |-> o, native |-> n]

\* /= without the min() / -1 check
operator_div_assign_unguarded(self, r, u) ==
    IF failure(self) \/ failure(r)
    THEN Out(Obj(self.m_val, TRUE), "none")
    ELSE IF operator_eq(zero(FALSE), r)
    THEN Out(Obj(self.m_val, integral_overflow_underflow_wrap_error), "none")
    ELSE Out(Obj(native_div(self.m_val, r.m_val, u), self.m_error), "div")

operator_div_assign(self, r, u) ==
    IF failure(self) \/ failure(r)
    THEN Out(Obj(self.m_val, TRUE), "none")
    ELSE IF operator_eq(zero(FALSE), r)
    THEN Out(Obj(self.m_val, integral_overflow_underflow_wrap_error), "none")
    ELSE IF is_signed_type /\ (min = self.m_val) /\ operator_eq(operator_neg(one(FALSE)), r)
    THEN Out(Obj(self.m_val, integral_overflow_underflow_wrap_error), "none")
    ELSE Out(Obj(native_div(self.m_val, r.m_val, u), self.m_error), "div")

operator_div_assign_raw(self, r, u) == operator_div_assign(self, ctor(r), u)

\* %= returning on a zero divisor without setting m_error
operator_rem_assign_quiet(self, r, u) ==
    IF failure(self) \/ failure(r)
    THEN Out(Obj(self.m_val, TRUE), "none")
    ELSE IF operator_eq(zero(FALSE), r)
    THEN Out(Obj(self.m_val, self.m_error), "none")
    ELSE IF is_signed_type /\ (min = self.m_val) /\ operator_eq_sr(operator_neg(one(FALSE)), r.m_val)
    THEN Out(Obj(self.m_val, integral_overflow_underflow_wrap_error), "none")
    ELSE Out(Obj(native_rem(self.m_val, r.m_val, u), self.m_error), "rem")

operator_rem_assign(self, r, u) ==
    IF failure(self) \/ failure(r)
    THEN Out(Obj(self.m_val, TRUE), "none")
    ELSE IF operator_eq(zero(FALSE), r)
    THEN Out(Obj(self.m_val, integral_overflow_underflow_wrap_error), "none")
    ELSE IF is_signed_type /\ (min = self.m_val) /\ operator_eq_sr(operator_neg(one(FALSE)), r.m_val)
    THEN Out(Obj(self.m_val, integral_overflow_underflow_wrap_error), "none")
    ELSE Out(Obj(native_rem(self.m_val, r.m_val, u), self.m_error), "rem")

operator_rem_assign_raw(self, r, u) == operator_rem_assign(self, ctor(r), u)

operator_div(l, r, u) == operator_div_assign(l, r, u)

operator_div_sr(l, r, u) == operator_div(l, ctor(r), u)

operator_div_rs(l, r, u) == operator_div(ctor(l), r, u)

operator_rem(l, r, u) == operator_rem_assign(l, r, u)

operator_rem_sr(l, r, u) == operator_rem(l, ctor(r), u)

operator_rem_rs(l, r, u) == operator_rem(ctor(l), r, u)

\* ---- shift operators (unsigned T only) ----

\* tmp <<= bits on a T; u is the outcome for a count outside the width
native_shl(v, n, u) == IF n < T.bits THEN (v * pow2(n)) % pow2(T.bits) ELSE u

\* tmp >>= bits on a T; u is the outcome for a count outside the width
native_shr(v, n, u) == IF n < T.bits THEN v \div pow2(n) ELSE u

\* <<= rebuilding the instance with the one-argument constructor
operator_shl_assign_fresh(l, n, u) == ctor(native_shl(get(l), n, u))

operator_shl_assign(l, n, u) == ctor_err(native_shl(get(l), n, u), failure(l))

\* << that reports the bits shifted out as a failure
operator_shl_lossy(l, n, u) ==
    ctor_err(native_shl(get(l), n, u), failure(l) \/ (get(l) * pow2(n) > max))

operator_shl(l, n, u) == ctor_err(native_shl(get(l), n, u), failure(l))

operator_shr_assign(l, n, u) == ctor_err(native_shr(get(l), n, u), failure(l))

operator_shr(l, n, u) == ctor_err(native_shr(get(l), n, u), failure(l))

\* ---- bitwise operators (unsigned T only) ----

RECURSIVE bit_and(_, _)
bit_and(x, y) ==
    IF x = 0 \/ y = 0 THEN 0
    ELSE ((x % 2) * (y % 2)) + (2 * bit_and(x \div 2, y \div 2))

RECURSIVE bit_or(_, _)
bit_or(x, y) ==
    IF x = 0 THEN y ELSE IF y = 0 THEN x
    ELSE (IF (x % 2) + (y % 2) > 0 THEN 1 ELSE 0) + (2 * bit_or(x \div 2, y \div 2))

RECURSIVE bit_xor(_, _)
bit_xor(x, y) ==
    IF x = 0 THEN y ELSE IF y = 0 THEN x
    ELSE (((x % 2) + (y % 2)) % 2) + (2 * bit_xor(x \div 2, y \div 2))

operator_and_assign(l, r) == ctor_err(bit_and(get(l), get(r)), failure(l) \/ failure(r))

operator_and_assign_raw(l, r) == ctor_err(bit_and(get(l), r), failure(l))

operator_and(l, r) == operator_and_assign(l, r)

operator_and_sr(l, r) == operator_and(l, ctor(r))

operator_and_rs(l, r) == operator_and(ctor(l), r)

operator_or_assign(l, r) == ctor_err(bit_or(get(l), get(r)), failure(l) \/ failure(r))

operator_or_assign_raw(l, r) == ctor_err(bit_or(get(l), r), failure(l))

operator_or(l, r) == operator_or_assign(l, r)

operator_or_sr(l, r) == operator_or(l, ctor(r))

operator_or_rs(l, r) == operator_or(ctor(l), r)

\* ^= that carries lhs.failure() only
operator_xor_assign_lhs(l, r) == ctor_err(bit_xor(get(l), get(r)), failure(l))

operator_xor_assign(l, r) == ctor_err(bit_xor(get(l), get(r)), failure(l) \/ failure(r))

operator_xor_assign_raw(l, r) == ctor_err(bit_xor(get(l), r), failure(l))

operator_xor(l, r) == operator_xor_assign(l, r)

operator_xor_sr(l, r) == operator_xor(l, ctor(r))

operator_xor_rs(l, r) == operator_xor(ctor(l), r)

\* ~ as the two's complement negation
operator_not_negate(r) == ctor_err(wrap(0 - get(r)), failure(r))

operator_not(r) == operator_xor_rs(max, r)

\* ---- compound assignment with the instance on both sides ----

\* a op= a whose += detects the wrap by comparing the sum with rhs.m_val,
\* read through the reference after the sum is stored
compound_self_compare(f, self, u) ==
    CASE f = "+=self" ->
            LET o == builtin_add_overflow(self.m_val, self.m_val)
            IN  Out(Obj(o.res, self.m_error \/ (o.res < o.res)), "none")
      [] f = "-=self" -> Out(operator_sub_assign(self, self), "none")
      [] f = "*=self" -> Out(operator_mul_assign(self, self), "none")
      [] f = "/=self" -> operator_div_assign(self, self, u)
      [] f = "%=self" -> operator_rem_assign(self, self, u)

\* a op= a: the member runs with rhs referring to *this, so what it reads
\* from rhs after a store to m_val is the stored value; the operands of
\* builtin_*_overflow are passed by value before *res is written
compound_self(f, self, u) ==
    CASE f = "+=self" ->
            LET o    == builtin_add_overflow(self.m_val, self.m_val)
                this == [self EXCEPT !.m_val = o.res]
            IN  Out([this EXCEPT !.m_error = this.m_error \/ (o.ovf \/ failure(this))], "none")
      [] f = "-=self" ->
            LET o    == builtin_sub_overflow(self.m_val, self.m_val)
                this == [self EXCEPT !.m_val = o.res]
            IN  Out([this EXCEPT !.m_error = this.m_error \/ (o.ovf \/ failure(this))], "none")
      [] f = "*=self" ->
            LET o    == builtin_mul_overflow(self.m_val, self.m_val)
                this == [self EXCEPT !.m_val = o.res]
            IN  Out([this EXCEPT !.m_error = this.m_error \/ (o.ovf \/ failure(this))], "none")
      [] f = "/=self" ->
            IF failure(self) \/ failure(self)
            THEN Out([self EXCEPT !.m_error = TRUE], "none")
            ELSE IF operator_eq(zero(FALSE), self)
            THEN Out([self EXCEPT !.m_error = integral_overflow_underflow_wrap_error], "none")
            ELSE IF is_signed_type /\ (min = self.m_val) /\ operator_eq(operator_neg(one(FALSE)), self)
            THEN Out([self EXCEPT !.m_error = integral_overflow_underflow_wrap_error], "none")
            ELSE Out([self EXCEPT !.m_val = native_div(self.m_val, self.m_val, u)], "div")
      [] f = "%=self" ->
            IF failure(self) \/ failure(self)
            THEN Out([self EXCEPT !.m_error = TRUE], "none")
            ELSE IF operator_eq(zero(FALSE), self)
            THEN Out([self EXCEPT !.m_error = integral_overflow_underflow_wrap_error], "none")
            ELSE IF is_signed_type /\ (min = self.m_val) /\ operator_eq_sr(operator_neg(one(FALSE)), self.m_val)
            THEN Out([self EXCEPT !.m_error = integral_overflow_underflow_wrap_error], "none")
            ELSE Out([self EXCEPT !.m_val = native_rem(self.m_val, self.m_val, u)], "rem")

\* ---- one call on the instance ----

ObjOf(arg) == Obj(arg.m_val, arg.m_error)

\* outcome of a call: *this afterwards, the values returned, the native
\* instruction reached
R(s, o, b, v, n) == [self |-> s, ret |-> o, retb |-> b, retv |-> v, native |-> n]

\* in-place operation returning *this
Mut(o) == R(o, o, FALSE, 0, "none")

MutN(out) == R(out.obj, out.obj, FALSE, 0, out.native)

\* operator that works on its operand instead of on a copy
Val_shared(s, o) == R(o, o, FALSE, 0, "none")

\* const operation returning a safe_integral by value
Val(s, o) == R(s, o, FALSE, 0, "none")

ValN(s, out) == R(s, out.obj, FALSE, 0, out.native)

\* const operation returning bool
Flag(s, b) == R(s, s, b, 0, "none")

\* const operation returning a raw T
Value(s, v) == R(s, s, FALSE, v, "none")

\* operations taking a safe_integral operand
SafeArgOps ==
    {"ctor_err", "max", "min", "+=", "-=", "*=", "/=", "%=", "==", "!=", "<",
     "<=", ">", ">=", "+", "-", "*", "/", "%", "&=", "&", "|=", "|", "^=",
     "^"}

\* operations taking a raw T operand
RawArgOps ==
    {"ctor", "=", "max_raw", "min_raw", "+=raw", "-=raw", "*=raw", "/=raw",
     "%=raw", "==sr", "==rs", "!=sr", "!=rs", "<sr", "<rs", "<=sr", "<=rs",
     ">sr", ">rs", ">=sr", ">=rs", "+sr", "+rs", "-sr", "-rs", "*sr", "*rs",
     "/sr", "/rs", "%sr", "%rs", "&=raw", "&sr", "&rs", "|=raw", "|sr",
     "|rs", "^=raw", "^sr", "^rs"}

\* operations taking a shift count
CountArgOps ==
    {"<<=", "<<", ">>=", ">>"}

\* operations without operand
NoArgOps ==
    {"set_failure", "get", "bool", "failure", "is_zero", "is_pos", "is_neg",
     "is_max", "is_min", "++", "--", "neg", "~"}

\* free functions whose left operand is the raw T (the instance is on the right)
RsOps ==
    {"==rs", "!=rs", "<rs", "<=rs", ">rs", ">=rs", "+rs", "-rs", "*rs",
     "/rs", "%rs", "&rs", "|rs", "^rs"}

\* operations declared for unsigned T only
UnsignedOps ==
    {"<<=", "<<", ">>=", ">>", "&=", "&=raw", "&", "&sr", "&rs", "|=",
     "|=raw", "|", "|sr", "|rs", "^=", "^=raw", "^", "^sr", "^rs", "~"}

\* operations declared for signed T only
SignedOps ==
    {"neg"}

\* operations whose native instruction can be undefined for some operands
UndefOps ==
    {"/=", "/=raw", "%=", "%=raw", "/", "/sr", "/rs", "%", "%sr", "%rs",
     "<<=", "<<", ">>=", ">>"}

Ops == SafeArgOps \cup RawArgOps \cup CountArgOps \cup NoArgOps

\* the ways a safe_integral is default constructed: `safe_integral<T> a{}`,
\* a global `safe_integral<T> a;` and an automatic `safe_integral<T> a;`
DefaultCtorOps == {"default{}", "default_static", "default_auto"}

\* direct calls of the overflow helpers, with m_val of the instance as lhs
\* and a local as *res: the bool returned and the value stored in *res are
\* recorded
BuiltinOps == {"builtin_add_overflow", "builtin_sub_overflow", "builtin_mul_overflow"}

\* compound assignments called as a op= a
SelfOps == {"+=self", "-=self", "*=self", "/=self", "%=self"}

\* the operation f applied to the instance self with operand arg
Exec(f, self, arg, u) ==
    CASE f = "default{}" -> Mut(default_ctor(zero_initialized))
      [] f = "default_static" -> Mut(default_ctor(zero_initialized))
      [] f = "default_auto" -> Mut(default_ctor(ObjOf(arg)))
      [] f = "builtin_add_overflow" ->
            LET o == builtin_add_overflow(self.m_val, arg.m_val)
            IN  R(self, self, o.ovf, o.res, "none")
      [] f = "builtin_sub_overflow" ->
            LET o == builtin_sub_overflow(self.m_val, arg.m_val)
            IN  R(self, self, o.ovf, o.res, "none")
      [] f = "builtin_mul_overflow" ->
            LET o == builtin_mul_overflow(self.m_val, arg.m_val)
            IN  R(self, self, o.ovf, o.res, "none")
      [] f \in SelfOps -> MutN(compound_self(f, self, u))
      [] f = "ctor" -> Mut(ctor(arg.m_val))
      [] f = "ctor_err" -> Mut(ctor_err(arg.m_val, arg.m_error))
      [] f = "=" -> Mut(operator_assign(self, arg.m_val))
      [] f = "set_failure" -> Mut(set_failure(self))
      [] f = "get" -> Value(self, get(self))
      [] f = "bool" -> Flag(self, operator_bool(self))
      [] f = "failure" -> Flag(self, failure(self))
      [] f = "is_zero" -> Flag(self, is_zero(self))
      [] f = "is_pos" -> Flag(self, is_pos(self))
      [] f = "is_neg" -> Flag(self, is_neg(self))
      [] f = "is_max" -> Flag(self, is_max(self))
      [] f = "is_min" -> Flag(self, is_min(self))
      [] f = "max" -> Val(self, max_safe(self, ObjOf(arg)))
      [] f = "max_raw" -> Val(self, max_raw(self, arg.m_val))
      [] f = "min" -> Val(self, min_safe(self, ObjOf(arg)))
      [] f = "min_raw" -> Val(self, min_raw(self, arg.m_val))
      [] f = "+=" -> Mut(operator_add_assign(self, ObjOf(arg)))
      [] f = "+=raw" -> Mut(operator_add_assign_raw(self, arg.m_val))
      [] f = "-=" -> Mut(operator_sub_assign(self, ObjOf(arg)))
      [] f = "-=raw" -> Mut(operator_sub_assign_raw(self, arg.m_val))
      [] f = "*=" -> Mut(operator_mul_assign(self, ObjOf(arg)))
      [] f = "*=raw" -> Mut(operator_mul_assign_raw(self, arg.m_val))
      [] f = "/=" -> MutN(operator_div_assign(self, ObjOf(arg), u))
      [] f = "/=raw" -> MutN(operator_div_assign_raw(self, arg.m_val, u))
      [] f = "%=" -> MutN(operator_rem_assign(self, ObjOf(arg), u))
      [] f = "%=raw" -> MutN(operator_rem_assign_raw(self, arg.m_val, u))
      [] f = "++" -> Mut(operator_inc(self))
      [] f = "--" -> Mut(operator_dec(self))
      [] f = "==" -> Flag(self, operator_eq(self, ObjOf(arg)))
      [] f = "==sr" -> Flag(self, operator_eq_sr(self, arg.m_val))
      [] f = "==rs" -> Flag(self, operator_eq_rs(arg.m_val, self))
      [] f = "!=" -> Flag(self, operator_ne(self, ObjOf(arg)))
      [] f = "!=sr" -> Flag(self, operator_ne_sr(self, arg.m_val))
      [] f = "!=rs" -> Flag(self, operator_ne_rs(arg.m_val, self))
      [] f = "<" -> Flag(self, operator_lt(self, ObjOf(arg)))
      [] f = "<sr" -> Flag(self, operator_lt_sr(self, arg.m_val))
      [] f = "<rs" -> Flag(self, operator_lt_rs(arg.m_val, self))
      [] f = "<=" -> Flag(self, operator_le(self, ObjOf(arg)))
      [] f = "<=sr" -> Flag(self, operator_le_sr(self, arg.m_val))
      [] f = "<=rs" -> Flag(self, operator_le_rs(arg.m_val, self))
      [] f = ">" -> Flag(self, operator_gt(self, ObjOf(arg)))
      [] f = ">sr" -> Flag(self, operator_gt_sr(self, arg.m_val))
      [] f = ">rs" -> Flag(self, operator_gt_rs(arg.m_val, self))
      [] f = ">=" -> Flag(self, operator_ge(self, ObjOf(arg)))
      [] f = ">=sr" -> Flag(self, operator_ge_sr(self, arg.m_val))
      [] f = ">=rs" -> Flag(self, operator_ge_rs(arg.m_val, self))
      [] f = "+" -> Val(self, operator_add(self, ObjOf(arg)))
      [] f = "+sr" -> Val(self, operator_add_sr(self, arg.m_val))
      [] f = "+rs" -> Val(self, operator_add_rs(arg.m_val, self))
      [] f = "-" -> Val(self, operator_sub(self, ObjOf(arg)))
      [] f = "-sr" -> Val(self, operator_sub_sr(self, arg.m_val))
      [] f = "-rs" -> Val(self, operator_sub_rs(arg.m_val, self))
      [] f = "*" -> Val(self, operator_mul(self, ObjOf(arg)))
      [] f = "*sr" -> Val(self, operator_mul_sr(self, arg.m_val))
      [] f = "*rs" -> Val(self, operator_mul_rs(arg.m_val, self))
      [] f = "/" -> ValN(self, operator_div(self, ObjOf(arg), u))
      [] f = "/sr" -> ValN(self, operator_div_sr(self, arg.m_val, u))
      [] f = "/rs" -> ValN(self, operator_div_rs(arg.m_val, self, u))
      [] f = "%" -> ValN(self, operator_rem(self, ObjOf(arg), u))
      [] f = "%sr" -> ValN(self, operator_rem_sr(self, arg.m_val, u))
      [] f = "%rs" -> ValN(self, operator_rem_rs(arg.m_val, self, u))
      [] f = "neg" -> Val(self, operator_neg(self))
      [] f = "<<=" -> Mut(operator_shl_assign(self, arg.m_val, u))
      [] f = "<<" -> Val(self, operator_shl(self, arg.m_val, u))
      [] f = ">>=" -> Mut(operator_shr_assign(self, arg.m_val, u))
      [] f = ">>" -> Val(self, operator_shr(self, arg.m_val, u))
      [] f = "&=" -> Mut(operator_and_assign(self, ObjOf(arg)))
      [] f = "&=raw" -> Mut(operator_and_assign_raw(self, arg.m_val))
      [] f = "&" -> Val(self, operator_and(self, ObjOf(arg)))
      [] f = "&sr" -> Val(self, operator_and_sr(self, arg.m_val))
      [] f = "&rs" -> Val(self, operator_and_rs(arg.m_val, self))
      [] f = "|=" -> Mut(operator_or_assign(self, ObjOf(arg)))
      [] f = "|=raw" -> Mut(operator_or_assign_raw(self, arg.m_val))
      [] f = "|" -> Val(self, operator_or(self, ObjOf(arg)))
      [] f = "|sr" -> Val(self, operator_or_sr(self, arg.m_val))
      [] f = "|rs" -> Val(self, operator_or_rs(arg.m_val, self))
      [] f = "^=" -> Mut(operator_xor_assign(self, ObjOf(arg)))
      [] f = "^=raw" -> Mut(operator_xor_assign_raw(self, arg.m_val))
      [] f = "^" -> Val(self, operator_xor(self, ObjOf(arg)))
      [] f = "^sr" -> Val(self, operator_xor_sr(self, arg.m_val))
      [] f = "^rs" -> Val(self, operator_xor_rs(arg.m_val, self))
      [] f = "~" -> Val(self, operator_not(self))

\* shift counts: every count inside the width, and the width itself
ShiftCounts == 0..T.bits

Args(f) ==
    IF f \in SafeArgOps THEN {Safe(x) : x \in SafeOperands}
    ELSE IF f \in RawArgOps \cup BuiltinOps THEN {Raw(v) : v \in RawOperands}
    ELSE IF f \in CountArgOps THEN {Raw(n) : n \in ShiftCounts}
    ELSE IF f = "default_auto" THEN {Storage(x) : x \in SafeOperands}
    ELSE {None}

\* outcomes to consider for the native instruction of f: any value of T
\* when its behaviour is undefined for these operands
Undef(f, self, arg) ==
    IF f \in {"/=self", "%=self"}
    THEN (IF native_undefined(self.m_val, self.m_val) THEN Range ELSE {0})
    ELSE IF f \in CountArgOps
    THEN (IF arg.m_val < T.bits THEN {0} ELSE Range)
    ELSE IF f \in UndefOps
    THEN (IF (IF f \in RsOps
              THEN native_undefined(arg.m_val, self.m_val)
              ELSE native_undefined(self.m_val, arg.m_val))
          THEN Range ELSE {0})
    ELSE {0}

Declared(f) ==
    /\ (f \in UnsignedOps => is_unsigned_type)
    /\ (f \in SignedOps => is_signed_type)

\* a call of f on the instance, from the caller's idle position; the call
\* is recorded until the caller drops the returned value (Return)
Do(f) ==
    /\ op = "idle"
    /\ Declared(f)
    /\ \E arg \in Args(f) : \E u \in Undef(f, a, arg) :
          LET e == Exec(f, a, arg, u)
          IN  /\ a' = e.self
              /\ op' = f
              /\ lhs' = (IF f \in RsOps THEN arg ELSE Safe(a))
              /\ rhs' = (IF f \in RsOps THEN Safe(a) ELSE arg)
              /\ ret' = e.ret
              /\ retb' = e.retb
              /\ retv' = e.retv
              /\ native' = e.native
    /\ UNCHANGED <<T, BSL_PERFORCE, a2, ret2, retb2, retv2, pc, as_written, errc, ifmap, os, life>>

\* the full expression ends: the returned temporary is destroyed and the
\* caller is idle again; the instance keeps its state
Return ==
    /\ op # "idle"
    /\ op' = "idle"
    /\ lhs' = None
    /\ rhs' = None
    /\ ret' = Obj(0, FALSE)
    /\ retb' = FALSE
    /\ retv' = 0
    /\ native' = "none"
    /\ ret2' = Obj(0, FALSE)
    /\ retb2' = FALSE
    /\ retv2' = 0
    /\ UNCHANGED <<T, BSL_PERFORCE, a, a2, pc, as_written, errc, ifmap, os, life>>

\* builtin_add_overflow, builtin_sub_overflow, builtin_mul_overflow
Builtin == \E f \in BuiltinOps : Do(f)

\* safe_integral(): the instance is replaced by a default constructed one;
\* the storage of an automatic object that is not value-initialised is
\* indeterminate
DefaultConstruct == \E f \in DefaultCtorOps : Do(f)

\* safe_integral(U) and safe_integral(U, bool): the instance is replaced by
\* a freshly constructed one
Construct == \E f \in {"ctor", "ctor_err"} : Do(f)

\* operator=(U)
Assign == Do("=")

SetFailure == Do("set_failure")

\* get, operator bool, failure, is_zero, is_pos, is_neg, is_max, is_min
Observe ==
    \E f \in {"get", "bool", "failure", "is_zero", "is_pos", "is_neg", "is_max", "is_min"} :
        Do(f)

\* max(other), min(other) with a safe_integral or a raw T
MinMax == \E f \in {"max", "max_raw", "min", "min_raw"} : Do(f)

\* += -= *= /= %= with a safe_integral or a raw T
CompoundArith ==
    \E f \in {"+=", "+=raw", "-=", "-=raw", "*=", "*=raw", "/=", "/=raw", "%=", "%=raw"} :
        Do(f)

\* a op= a for += -= *= /= %=
SelfCompound == \E f \in SelfOps : Do(f)

\* ++ and --
IncDec == \E f \in {"++", "--"} : Do(f)

\* == != < <= > >= in their three operand forms
Compare ==
    \E f \in {"==", "==sr", "==rs", "!=", "!=sr", "!=rs", "<", "<sr", "<rs",
              "<=", "<=sr", "<=rs", ">", ">sr", ">rs", ">=", ">=sr", ">=rs"} :
        Do(f)

\* + - * / % in their three operand forms
BinaryArith ==
    \E f \in {"+", "+sr", "+rs", "-", "-sr", "-rs", "*", "*sr", "*rs",
              "/", "/sr", "/rs", "%", "%sr", "%rs"} :
        Do(f)

\* unary -
Negate == Do("neg")

\* <<= << >>= >>
Shift == \E f \in CountArgOps : Do(f)

\* &= |= ^= & | ^ in their operand forms, and ~
Bitwise == \E f \in (UnsignedOps \ CountArgOps) : Do(f)

\* a value-initialised instance `safe_integral<T> a{}` of one of the types,
\* in a build with the given BSL_PERFORCE
InitState(types, perforce) ==
    /\ T \in types
    /\ BSL_PERFORCE = perforce
    /\ a = Obj(0, FALSE)
    /\ op = "idle"
    /\ lhs = None
    /\ rhs = None
    /\ ret = Obj(0, FALSE)
    /\ retb = FALSE
    /\ retv = 0
    /\ native = "none"
    /\ a2 = Obj(0, FALSE)
    /\ ret2 = Obj(0, FALSE)
    /\ retb2 = FALSE
    /\ retv2 = 0
    /\ pc = 0
    /\ as_written = FALSE
    /\ errc = [m_errc |-> 0]
    /\ ifmap = [m_file |-> "nullptr", m_view |-> "nullptr", m_data |-> [data |-> "nullptr", count |-> 0]]
    /\ os = [open |-> {}, closes |-> <<>>]
    /\ life = [ctor |-> FALSE, dtor |-> FALSE]

\* the regular build: BSL_PERFORCE is false
Init == InitState(Types, FALSE)

\* the build with BSL_PERFORCE set
InitPerforce == InitState(Types, TRUE)

Next ==
    \/ Builtin
    \/ DefaultConstruct
    \/ Construct
    \/ Assign
    \/ SetFailure
    \/ Observe
    \/ MinMax
    \/ CompoundArith
    \/ SelfCompound
    \/ IncDec
    \/ Compare
    \/ BinaryArith
    \/ Negate
    \/ Shift
    \/ Bitwise
    \/ Return

Spec == Init /\ [][Next]_vars

SpecPerforce == InitPerforce /\ [][Next]_vars

\* ---- two instances driven in lock step ----

\* width of T in the lock-step specification (model bound)
TwinBits == 3

TwinTypes ==
    {[is_signed |-> TRUE, bits |-> TwinBits], [is_signed |-> FALSE, bits |-> TwinBits]}

InitTwin == InitState(TwinTypes, FALSE)

\* the operands the twin may be given for arg: the same operand, or, for a
\* poisoned safe_integral, one that differs from it in m_val only (every
\* m_val of arg is paired with itself and with the two extremes of T)
TwinArgs(arg) ==
    IF arg.kind = "safe" /\ arg.m_error
    THEN {[arg EXCEPT !.m_val = q] : q \in {arg.m_val, min, max}}
    ELSE {arg}

\* the same call on a and on its twin a2; an undefined native instruction
\* is resolved to the same outcome u in both
TwinCall ==
    /\ op = "idle"
    /\ \E f \in Ops :
          /\ Declared(f)
          /\ \E arg \in Args(f) : \E arg2 \in TwinArgs(arg) :
             \E u \in (Undef(f, a, arg) \cup Undef(f, a2, arg2)) :
                LET e  == Exec(f, a, arg, u)
                    e2 == Exec(f, a2, arg2, u)
                IN  /\ a' = e.self
                    /\ ret' = e.ret
                    /\ retb' = e.retb
                    /\ retv' = e.retv
                    /\ native' = e.native
                    /\ a2' = e2.self
                    /\ ret2' = e2.ret
                    /\ retb2' = e2.retb
                    /\ retv2' = e2.retv
                    /\ op' = f
    /\ UNCHANGED <<T, BSL_PERFORCE, lhs, rhs, pc, as_written, errc, ifmap, os, life>>

NextTwin == TwinCall \/ Return

SpecTwin == InitTwin /\ [][NextTwin]_vars

\* ---- example_safe_integral_overview ----

\* width of bsl::safe_int32 in the example (model bound: the values of the
\* example need 10 bits, 32 bits are outside the integers of the checker)
ExampleBits == 12

\* val1 .. val6
OverviewValues == <<4, 8, 15, 16, 23, 42>>

\* the operators of (((((val1 / val2) + val3) % val4) * val5) - val6), in
\* the order they are evaluated
OverviewOps == <<"/", "+", "%", "*", "-">>

\* the constants tried in the place of val1 .. val6 lie within this
\* distance of 0 (model bound), or are one of val1 .. val6, min() or max()
OperandSpan == 5

OverviewOperands ==
    ((0 - OperandSpan)..OperandSpan) \cup {OverviewValues[i] : i \in 1..6} \cup {min, max}

\* constexpr bsl::safe_int32 val1{...}: the left operand of the first
\* operator
InitOverview ==
    /\ T = [is_signed |-> TRUE, bits |-> ExampleBits]
    /\ BSL_PERFORCE = FALSE
    /\ \E v \in OverviewOperands :
          /\ a = ctor(v)
          /\ as_written = (v = OverviewValues[1])
    /\ pc = 0
    /\ op = "idle"
    /\ lhs = None
    /\ rhs = None
    /\ ret = Obj(0, FALSE)
    /\ retb = FALSE
    /\ retv = 0
    /\ native = "none"
    /\ a2 = Obj(0, FALSE)
    /\ ret2 = Obj(0, FALSE)
    /\ retb2 = FALSE
    /\ retv2 = 0
    /\ errc = [m_errc |-> 0]
    /\ ifmap = [m_file |-> "nullptr", m_view |-> "nullptr", m_data |-> [data |-> "nullptr", count |-> 0]]
    /\ os = [open |-> {}, closes |-> <<>>]
    /\ life = [ctor |-> FALSE, dtor |-> FALSE]

\* the next operator of the expression is applied to the value of the
\* subexpression so far (a) and the next constant; the temporary returned is
\* the left operand of the operator after it; the outcomes considered for an
\* undefined native instruction are those among the constants tried
Evaluate ==
    /\ pc < Len(OverviewOps)
    /\ \E v \in OverviewOperands :
          LET f   == OverviewOps[pc + 1]
              arg == Safe(ctor(v))
          IN  \E u \in {x \in OverviewOperands : x \in Undef(f, a, arg)} :
                 LET e == Exec(f, a, arg, u)
                 IN  /\ a' = e.ret
                     /\ op' = f
                     /\ lhs' = Safe(a)
                     /\ rhs' = arg
                     /\ ret' = e.ret
                     /\ retb' = e.retb
                     /\ retv' = e.retv
                     /\ native' = e.native
                     /\ as_written' = (as_written /\ v = OverviewValues[pc + 2])
    /\ pc' = pc + 1
    /\ UNCHANGED <<T, BSL_PERFORCE, a2, ret2, retb2, retv2, errc, ifmap, os, life>>

\* if constexpr (answer) { print << answer.get() } else { error }
Report ==
    /\ pc = Len(OverviewOps)
    /\ pc' = pc + 1
    /\ op' = "report"
    /\ lhs' = Safe(a)
    /\ rhs' = None
    /\ retb' = operator_bool(a)
    /\ retv' = get(a)
    /\ UNCHANGED <<T, BSL_PERFORCE, a, ret, native, a2, ret2, retb2, retv2, as_written, errc, ifmap, os, life>>

SpecOverview == InitOverview /\ [][Evaluate \/ Report]_vars

\* ---- bsl::basic_errc_type<> ----

\* the error codes tried lie within this distance of 0 (model bound)
ErrcSpan == 8

\* basic_errc_type(value_type const &errc)
errc_ctor(val) == [m_errc |-> val]

errc_get(self) == self.m_errc

errc_success(self) == self.m_errc = 0

\* failure() that is true for the positive codes only
errc_failure_positive(self) == self.m_errc > 0

errc_failure(self) == self.m_errc # 0

\* operator bool
errc_bool(self) == errc_success(self)

errc_is_checked(self) == self.m_errc < 0

errc_is_unchecked(self) == self.m_errc > 0

\* operator==(basic_errc_type const &, basic_errc_type const &)
errc_eq(l, r) == errc_get(l) = errc_get(r)

\* operator!=(basic_errc_type const &, basic_errc_type const &)
errc_ne(l, r) == ~errc_eq(l, r)

\* a call of f on the basic_errc_type instance, with the code val for the
\* constructor and for the other operand of == and !=
ErrcCall ==
    /\ op = "idle"
    /\ \E f \in {"errc_ctor", "errc_get", "errc_bool", "errc_success", "errc_failure",
                 "errc_is_checked", "errc_is_unchecked", "errc_eq", "errc_ne"} :
       \E val \in (0 - ErrcSpan)..ErrcSpan :
          /\ (f \notin {"errc_ctor", "errc_eq", "errc_ne"}) => val = 0
          /\ op' = f
          /\ lhs' = errc
          /\ rhs' = errc_ctor(val)
          /\ errc' = (IF f = "errc_ctor" THEN errc_ctor(val) ELSE errc)
          /\ retv' = (IF f = "errc_get" THEN errc_get(errc) ELSE 0)
          /\ retb' = (CASE f = "errc_bool" -> errc_bool(errc)
                         [] f = "errc_success" -> errc_success(errc)
                         [] f = "errc_failure" -> errc_failure(errc)
                         [] f = "errc_is_checked" -> errc_is_checked(errc)
                         [] f = "errc_is_unchecked" -> errc_is_unchecked(errc)
                         [] f = "errc_eq" -> errc_eq(errc, errc_ctor(val))
                         [] f = "errc_ne" -> errc_ne(errc, errc_ctor(val))
                         [] OTHER -> FALSE)
    /\ UNCHANGED <<T, BSL_PERFORCE, a, ret, native, a2, ret2, retb2, retv2, pc, as_written, ifmap, os, life>>

SpecErrc == Init /\ [][ErrcCall \/ Return]_vars

\* ---- bsl::ifmap (Windows) ----

\* largest file size (low DWORD) explored
MaxFileSize == 2

\* INVALID_FILE_SIZE is the largest DWORD: the value above every size
INVALID_FILE_SIZE == MaxFileSize + 1

\* CloseHandle(h): the call is recorded and h is no longer open; a null,
\* invalid or already closed h leaves the open handles as they are
CloseHandle(sys, h) == [open |-> sys.open \ {h}, closes |-> Append(sys.closes, h)]

\* ifmap(string_view const &filename), with the values returned by
\* CreateFileA, CreateFileMappingA, GetFileSize and MapViewOfFile; the
\* members start as HANDLE m_file{}, HANDLE m_view{}, span<byte> m_data{}
ifmap_ctor(file, view, size, ptr) ==
    LET sys == [open |-> {file, view} \ {"nullptr", "INVALID_HANDLE_VALUE"},
                closes |-> <<>>]
        self == [m_file |-> file, m_view |-> view,
                 m_data |-> [data |-> "nullptr", count |-> 0]]
    IN  IF view = "nullptr" THEN [self |-> self, os |-> sys]
        ELSE IF size = INVALID_FILE_SIZE
             THEN [self |-> self, os |-> CloseHandle(sys, self.m_file)]
        ELSE IF ptr = "nullptr"
             THEN [self |-> self, os |-> CloseHandle(sys, self.m_file)]
        ELSE [self |-> [self EXCEPT !.m_data = [data |-> ptr, count |-> size]],
              os |-> sys]

\* ~ifmap(): UnmapViewOfFile(m_data.data()), which touches no handle, then
\* CloseHandle(m_view) and CloseHandle(m_file)
ifmap_dtor(self, sys) == CloseHandle(CloseHandle(sys, self.m_view), self.m_file)

\* empty(): m_data.empty(), true of a span of no bytes
ifmap_empty(self) == self.m_data.count = 0

\* explicit operator bool()
ifmap_bool(self) == ~ifmap_empty(self)

\* construction from a filename: CreateFileA returns a fresh handle or
\* INVALID_HANDLE_VALUE; CreateFileMappingA returns another fresh handle, or
\* nullptr (always so for an invalid file handle and zero maximum size);
\* GetFileSize returns the size of the non-empty file or INVALID_FILE_SIZE;
\* MapViewOfFile returns the address of the view or nullptr
IfmapConstruct ==
    /\ op = "idle"
    /\ ~life.ctor
    /\ \E file \in {"h1", "h2", "h3", "INVALID_HANDLE_VALUE"} :
       \E view \in ({"h1", "h2", "h3"} \ {file}) \cup {"nullptr"} :
       \E size \in 1..INVALID_FILE_SIZE :
       \E ptr \in {"view", "nullptr"} :
          /\ (file = "INVALID_HANDLE_VALUE") => (view = "nullptr")
          /\ ifmap' = ifmap_ctor(file, view, size, ptr).self
          /\ os' = ifmap_ctor(file, view, size, ptr).os
    /\ life' = [life EXCEPT !.ctor = TRUE]
    /\ UNCHANGED <<T, BSL_PERFORCE, a, op, lhs, rhs, ret, retb, retv, native, a2, ret2, retb2, retv2, pc, as_written, errc>>

\* empty() or operator bool on the constructed object
IfmapObserve ==
    /\ life.ctor
    /\ ~life.dtor
    /\ \E f \in {"ifmap_empty", "ifmap_bool"} :
          /\ op' = f
          /\ retb' = (IF f = "ifmap_empty" THEN ifmap_empty(ifmap) ELSE ifmap_bool(ifmap))
    /\ UNCHANGED <<T, BSL_PERFORCE, a, lhs, rhs, ret, retv, native, a2, ret2, retb2, retv2, pc, as_written, errc, ifmap, os, life>>

\* the object goes out of scope
IfmapDestroy ==
    /\ life.ctor
    /\ ~life.dtor
    /\ os' = ifmap_dtor(ifmap, os)
    /\ life' = [life EXCEPT !.dtor = TRUE]
    /\ UNCHANGED <<T, BSL_PERFORCE, a, op, lhs, rhs, ret, retb, retv, native, a2, ret2, retb2, retv2, pc, as_written, errc, ifmap>>

SpecIfmap == Init /\ [][IfmapConstruct \/ IfmapObserve \/ IfmapDestroy]_vars

\* ---- properties ----

\* in-place mutations of the instance
MutatingOps ==
    {"+=", "+=raw", "-=", "-=raw", "*=", "*=raw", "/=", "/=raw", "%=", "%=raw",
     "++", "--", "<<=", ">>=", "&=", "&=raw", "|=", "|=raw", "^=", "^=raw",
     "set_failure"} \cup SelfOps

\* re-initialisation: assignment from a raw T, or replacement by a freshly
\* constructed instance
ReinitOps == {"=", "ctor", "ctor_err"} \cup DefaultCtorOps

\* compound arithmetic, safe_integral and raw operand
ArithAssignOps ==
    {"+=", "+=raw", "-=", "-=raw", "*=", "*=raw", "/=", "/=raw", "%=", "%=raw"}

\* binary arithmetic in its three operand forms
ArithOps ==
    {"+", "+sr", "+rs", "-", "-sr", "-rs", "*", "*sr", "*rs",
     "/", "/sr", "/rs", "%", "%sr", "%rs"}

DivRemAssignOps == {"/=", "/=raw", "%=", "%=raw"}

DivRemOps == DivRemAssignOps \cup {"/", "/sr", "/rs", "%", "%sr", "%rs"}

\* C1: whenever the error flag is set, get() returns 0 and is_zero() returns
\* true, whatever m_val holds
C1_PoisonedReadsAsZero ==
    /\ (failure(a) => (get(a) = 0 /\ is_zero(a)))
    /\ ((op = "get" /\ lhs.m_error) => retv = 0)
    /\ ((op = "is_zero" /\ lhs.m_error) => retb)

C1_Witness == op = "get" /\ lhs.m_error /\ lhs.m_val # 0 /\ retv = 0

\* C2: an in-place mutation never clears a set error flag; the flag is
\* cleared only by re-initialisation
C2_StickyFailure ==
    [][/\ ((a.m_error /\ op' \in MutatingOps) => a'.m_error)
       /\ ((a.m_error /\ ~a'.m_error) => op' \in ReinitOps)]_vars

C2_Witness ==
    /\ op \in MutatingOps \ {"set_failure"}
    /\ lhs.m_error
    /\ a.m_error
    /\ a.m_val # lhs.m_val

\* C3: every arithmetic operator, binary or compound, with a poisoned
\* safe_integral operand gives a poisoned result
C3_Closure ==
    (op \in (ArithOps \cup ArithAssignOps) /\ (lhs.m_error \/ rhs.m_error))
        => failure(ret)

C3_Witness ==
    /\ op = "+rs"
    /\ rhs.m_error
    /\ (lhs.m_val + rhs.m_val) \in Range
    /\ failure(ret)

\* the exact mathematical result of + - * on the recorded operands
Exact ==
    IF op \in {"+", "+="} THEN lhs.m_val + rhs.m_val
    ELSE IF op \in {"-", "-="} THEN lhs.m_val - rhs.m_val
    ELSE lhs.m_val * rhs.m_val

\* C4: for unpoisoned operands a + b, a - b, a * b are poisoned iff the
\* exact result is outside [min(), max()], and otherwise hold that result
C4_OverflowExact ==
    (op \in {"+", "-", "*", "+=", "-=", "*="} /\ ~lhs.m_error /\ ~rhs.m_error)
        => /\ failure(ret) <=> (Exact < min \/ Exact > max)
           /\ ~failure(ret) => get(ret) = Exact

C4_Witness ==
    /\ op = "-"
    /\ ~lhs.m_error /\ ~rhs.m_error
    /\ lhs.m_val = min /\ rhs.m_val = 1
    /\ failure(ret)

\* C5: for unpoisoned operands, / and % (binary and compound, safe_integral
\* or raw divisor) are poisoned iff the divisor is 0, or T is signed and the
\* operands are min() and -1; a poisoned result reads as 0
C5_DivisionPoison ==
    (op \in DivRemOps /\ ~lhs.m_error /\ ~rhs.m_error)
        => /\ failure(ret) <=>
                 \/ rhs.m_val = 0
                 \/ (is_signed_type /\ lhs.m_val = min /\ rhs.m_val = 0 - 1)
           /\ failure(ret) => get(ret) = 0

C5_Witness ==
    /\ op = "%"
    /\ is_signed_type
    /\ ~lhs.m_error /\ ~rhs.m_error
    /\ lhs.m_val = min /\ rhs.m_val = 0 - 1
    /\ failure(ret) /\ get(ret) = 0

\* C6: /= and %= do not reach the native division or remainder when an
\* operand is poisoned, the divisor is 0, or (signed) the operands are min()
\* and -1: the flag is set and m_val is left unchanged
C6_NoNativeDivision ==
    (/\ op \in DivRemAssignOps
     /\ \/ lhs.m_error
        \/ rhs.m_error
        \/ rhs.m_val = 0
        \/ (is_signed_type /\ lhs.m_val = min /\ rhs.m_val = 0 - 1))
        => (native = "none" /\ a.m_error /\ a.m_val = lhs.m_val)

C6_Witness ==
    /\ op = "/="
    /\ is_signed_type
    /\ ~lhs.m_error /\ ~rhs.m_error
    /\ lhs.m_val = min /\ rhs.m_val = 0 - 1
    /\ native = "none" /\ a.m_error /\ a.m_val = min

\* == < <= > >= in their three operand forms
OrderOps ==
    {"==", "==sr", "==rs", "<", "<sr", "<rs", "<=", "<=sr", "<=rs",
     ">", ">sr", ">rs", ">=", ">=sr", ">=rs"}

\* C7: == < <= > >= return false whenever a safe_integral operand is
\* poisoned, in all three operand forms
C7_PoisonedComparesFalse ==
    (op \in OrderOps /\ (lhs.m_error \/ rhs.m_error)) => ~retb

C7_Witness ==
    /\ op = "=="
    /\ lhs.m_error
    /\ rhs = lhs
    /\ ~retb

\* what == returns for the operands recorded for a != call
EqOfRecorded ==
    IF op = "!=" THEN operator_eq(ObjOf(lhs), ObjOf(rhs))
    ELSE IF op = "!=sr" THEN operator_eq_sr(ObjOf(lhs), rhs.m_val)
    ELSE operator_eq_rs(lhs.m_val, ObjOf(rhs))

\* C8: != is the negation of == in all three operand forms: true whenever an
\* operand is poisoned, and for unpoisoned operands true iff the values differ
C8_NotEqualNegatesEqual ==
    (op \in {"!=", "!=sr", "!=rs"})
        => /\ retb = ~EqOfRecorded
           /\ (lhs.m_error \/ rhs.m_error) => retb
           /\ (~lhs.m_error /\ ~rhs.m_error) => (retb <=> lhs.m_val # rhs.m_val)

C8_Witness ==
    /\ op = "!="
    /\ lhs.m_error
    /\ rhs = lhs
    /\ retb

\* C10: safe_integral<T>{v}.get() == v and failure() == false for every v
C10_RoundTrip ==
    (op = "ctor") => (get(a) = rhs.m_val /\ ~failure(a) /\ ret = a)

C10_Witness == op = "ctor" /\ rhs.m_val = min /\ get(a) = min /\ ~failure(a)

\* C9: two instances that differ only in the m_val of a poisoned state give
\* the same results under every sequence of operations: the same failure()
\* and get() of the instance and of every returned safe_integral, the same
\* bool and the same raw T
C9_PayloadNotObservable ==
    /\ failure(a) = failure(a2)
    /\ get(a) = get(a2)
    /\ failure(ret) = failure(ret2)
    /\ get(ret) = get(ret2)
    /\ retb = retb2
    /\ retv = retv2

C9_Witness ==
    /\ op = "is_min"
    /\ failure(a) /\ failure(a2)
    /\ a.m_val = min /\ a2.m_val # min
    /\ retb = retb2

\* C11: a = v on an instance in any state, poisoned or not, leaves
\* failure() == false and get() == v, and the instance in the state of a
\* freshly constructed safe_integral<T>{v}, so that every later operation
\* behaves as on the fresh one
C11_AssignResets ==
    (op = "=") => (~failure(a) /\ get(a) = rhs.m_val /\ a = ctor(rhs.m_val))

C11_Witness ==
    /\ op = "="
    /\ lhs.m_error
    /\ lhs.m_val # rhs.m_val
    /\ ~failure(a)
    /\ get(a) = rhs.m_val

\* & | ^ with two safe_integral operands, binary and compound
BitSafeOps == {"&=", "&", "|=", "|", "^=", "^"}

\* & | ^ with a raw T on the right
BitRawRightOps == {"&=raw", "&sr", "|=raw", "|sr", "^=raw", "^sr"}

\* & | ^ with a raw T on the left
BitRawLeftOps == {"&rs", "|rs", "^rs"}

\* C12: for unsigned T the result of & | ^ (binary and compound) with two
\* safe_integral operands is poisoned iff one of the operands is, whatever
\* the bit values; with a raw T on either side the result is poisoned iff the
\* one safe_integral operand is
C12_BitwisePoison ==
    /\ (op \in BitSafeOps) => (failure(ret) <=> (lhs.m_error \/ rhs.m_error))
    /\ (op \in BitRawRightOps) => (failure(ret) <=> lhs.m_error)
    /\ (op \in BitRawLeftOps) => (failure(ret) <=> rhs.m_error)

C12_Witness ==
    /\ op = "^"
    /\ ~lhs.m_error
    /\ rhs.m_error
    /\ lhs.m_val = rhs.m_val
    /\ failure(ret)

\* C13: a.min(b) and a.max(b) with a safe_integral b return a poisoned
\* result iff a or b is poisoned, whatever the order of the values, and a
\* poisoned result reads as 0
C13_MinMaxPoison ==
    (op \in {"min", "max"})
        => /\ failure(ret) <=> (lhs.m_error \/ rhs.m_error)
           /\ failure(ret) => get(ret) = 0

C13_Witness ==
    /\ op = "max"
    /\ ~lhs.m_error
    /\ rhs.m_error
    /\ lhs.m_val = rhs.m_val
    /\ lhs.m_val # 0
    /\ failure(ret)
    /\ get(ret) = 0

\* the free operators that return a new safe_integral
FreeOps ==
    {"+", "+sr", "+rs", "-", "-sr", "-rs", "*", "*sr", "*rs", "/", "/sr",
     "/rs", "%", "%sr", "%rs", "&", "&sr", "&rs", "|", "|sr", "|rs", "^",
     "^sr", "^rs", "<<", ">>", "neg", "~"}

\* the safe_integral an operand recorded for a call stands for: a raw T is
\* converted by safe_integral<T>{val}
AsSafe(arg) == IF arg.kind = "raw" THEN ctor(arg.m_val) ELSE ObjOf(arg)

\* the state of a copy of the left operand of the recorded free operator
\* after the corresponding compound assignment with its right operand
\* (unary - has the left operand zero(), ~ has max())
CompoundOnCopy(u) ==
    LET l == AsSafe(lhs)
        r == AsSafe(rhs)
    IN  CASE op \in {"+", "+sr", "+rs"} -> operator_add_assign(l, r)
          [] op \in {"-", "-sr", "-rs"} -> operator_sub_assign(l, r)
          [] op \in {"*", "*sr", "*rs"} -> operator_mul_assign(l, r)
          [] op \in {"/", "/sr", "/rs"} -> operator_div_assign(l, r, u).obj
          [] op \in {"%", "%sr", "%rs"} -> operator_rem_assign(l, r, u).obj
          [] op \in {"&", "&sr", "&rs"} -> operator_and_assign(l, r)
          [] op \in {"|", "|sr", "|rs"} -> operator_or_assign(l, r)
          [] op \in {"^", "^sr", "^rs"} -> operator_xor_assign(l, r)
          [] op = "<<" -> operator_shl_assign(l, rhs.m_val, u)
          [] op = ">>" -> operator_shr_assign(l, rhs.m_val, u)
          [] op = "neg" -> operator_sub_assign(zero(FALSE), l)
          [] op = "~" -> operator_xor_assign(ctor(max), l)

\* the same with the compound assignment that takes the raw T
CompoundRawOnCopy(u) ==
    LET l == ObjOf(lhs)
        r == rhs.m_val
    IN  CASE op = "+sr" -> operator_add_assign_raw(l, r)
          [] op = "-sr" -> operator_sub_assign_raw(l, r)
          [] op = "*sr" -> operator_mul_assign_raw(l, r)
          [] op = "/sr" -> operator_div_assign_raw(l, r, u).obj
          [] op = "%sr" -> operator_rem_assign_raw(l, r, u).obj
          [] op = "&sr" -> operator_and_assign_raw(l, r)
          [] op = "|sr" -> operator_or_assign_raw(l, r)
          [] op = "^sr" -> operator_xor_assign_raw(l, r)

\* C14: the free operators (a op b, a op raw, raw op b for + - * / % & | ^,
\* << and >>, unary - and ~) leave their safe_integral operand as it was, also
\* when the result is poisoned, and return the state a copy of the left
\* operand has after the corresponding compound assignment
C14_FreeOperatorsPure ==
    (op \in FreeOps)
        => /\ a = (IF op \in RsOps THEN ObjOf(rhs) ELSE ObjOf(lhs))
           /\ \E u \in Range : ret = CompoundOnCopy(u)
           /\ (op \in {"+sr", "-sr", "*sr", "/sr", "%sr", "&sr", "|sr", "^sr"})
                 => \E u \in Range : ret = CompoundRawOnCopy(u)

C14_Witness ==
    /\ op = "+"
    /\ ~lhs.m_error
    /\ ~rhs.m_error
    /\ lhs.m_val = max
    /\ rhs.m_val = 1
    /\ failure(ret)
    /\ a = ObjOf(lhs)
    /\ ~failure(a)

\* C15: ++a leaves a in the state a += T(1) leaves it in, and --a in the
\* state of a -= T(1) (same failure(), same get()), from every state: inside
\* the range, at max(), at min(), poisoned
C15_IncDecAsCompound ==
    /\ (op = "++") =>
          LET b == operator_add_assign_raw(ObjOf(lhs), 1)
          IN  failure(a) = failure(b) /\ get(a) = get(b) /\ a = b
    /\ (op = "--") =>
          LET b == operator_sub_assign_raw(ObjOf(lhs), 1)
          IN  failure(a) = failure(b) /\ get(a) = get(b) /\ a = b

C15_Witness ==
    /\ op = "--"
    /\ is_unsigned_type
    /\ ~lhs.m_error
    /\ lhs.m_val = 0
    /\ failure(a)
    /\ a = operator_sub_assign_raw(ObjOf(lhs), 1)

\* C16: unary - on a signed T is 0 - a: an unpoisoned a other than min()
\* gives an unpoisoned result with get() == -a.get(), a == min() gives a
\* poisoned result, a poisoned a gives a poisoned result
C16_Negation ==
    (op = "neg")
        => /\ failure(ret) <=> (lhs.m_error \/ lhs.m_val = min)
           /\ ~failure(ret) => get(ret) = 0 - lhs.m_val

C16_Witness ==
    /\ op = "neg"
    /\ ~lhs.m_error
    /\ lhs.m_val = min
    /\ failure(ret)

\* C17: on a poisoned instance is_pos, is_neg, is_max and is_min all return
\* false, also when m_val equals max() or min() and for unsigned T, whose
\* min() is the 0 a poisoned instance reads as; is_neg is false for every
\* unsigned instance; on an unpoisoned instance exactly one of is_zero,
\* is_pos, is_neg holds, the one for the sign of the value, and is_max,
\* is_min hold iff the value is max(), min()
C17_SignPredicates ==
    /\ (op = "is_pos") => (retb <=> (~lhs.m_error /\ lhs.m_val > 0))
    /\ (op = "is_neg") => (retb <=> (~lhs.m_error /\ is_signed_type /\ lhs.m_val < 0))
    /\ (op = "is_max") => (retb <=> (~lhs.m_error /\ lhs.m_val = max))
    /\ (op = "is_min") => (retb <=> (~lhs.m_error /\ lhs.m_val = min))
    /\ (op = "is_zero" /\ ~lhs.m_error) => (retb <=> lhs.m_val = 0)
    /\ failure(a) => (~is_pos(a) /\ ~is_neg(a) /\ ~is_max(a) /\ ~is_min(a))
    /\ ~failure(a) =>
          Cardinality({p \in {"zero", "pos", "neg"} :
                          \/ p = "zero" /\ is_zero(a)
                          \/ p = "pos" /\ is_pos(a)
                          \/ p = "neg" /\ is_neg(a)}) = 1

C17_Witness ==
    /\ op = "is_min"
    /\ is_unsigned_type
    /\ lhs.m_error
    /\ lhs.m_val = min
    /\ ~retb

\* C18: the conversion to bool is !failure() in every state; set_failure()
\* in any state leaves failure() == true, the conversion to bool false and
\* get() == 0, and a second set_failure() changes nothing
C18_BoolAndSetFailure ==
    /\ operator_bool(a) = ~failure(a)
    /\ (op = "bool") => (retb = ~lhs.m_error)
    /\ (op = "set_failure")
          => /\ failure(a)
             /\ ~operator_bool(a)
             /\ get(a) = 0
             /\ lhs.m_error => a = ObjOf(lhs)

C18_Witness ==
    /\ op = "set_failure"
    /\ lhs.m_error
    /\ lhs.m_val # 0
    /\ a = ObjOf(lhs)
    /\ failure(a)
    /\ get(a) = 0

\* C19, as it stands: every default constructed safe_integral<T> has
\* get() == 0, failure() == false and is_zero() == true
C19_DefaultConstructedIsZero ==
    (op \in DefaultCtorOps) => (get(a) = 0 /\ ~failure(a) /\ is_zero(a))

\* C19: a default constructed safe_integral<T> that is value-initialised
\* (`safe_integral<T> a{}`) or has static storage has get() == 0,
\* failure() == false and is_zero() == true
C19_ZeroInitializedDefault ==
    (op \in {"default{}", "default_static"})
        => (get(a) = 0 /\ ~failure(a) /\ is_zero(a) /\ a = Obj(0, FALSE))

C19_Witness ==
    /\ op = "default{}"
    /\ lhs.m_error
    /\ get(a) = 0
    /\ ~failure(a)
    /\ is_zero(a)

\* C20: for unsigned T and a count n below the width, a << n, a >> n,
\* a <<= n and a >>= n give failure() == a.failure(): a shift never sets and
\* never clears the poison; for an unpoisoned a, get() is
\* (a.get() * 2^n) mod 2^width after << and floor(a.get() / 2^n) after >>
C20_ShiftInsideWidth ==
    (op \in CountArgOps /\ rhs.m_val < T.bits)
        => /\ failure(ret) = lhs.m_error
           /\ (op \in {"<<=", ">>="}) => a = ret
           /\ (~lhs.m_error /\ op \in {"<<=", "<<"})
                 => get(ret) = (lhs.m_val * pow2(rhs.m_val)) % (max + 1)
           /\ (~lhs.m_error /\ op \in {">>=", ">>"})
                 => get(ret) = lhs.m_val \div pow2(rhs.m_val)

C20_Witness ==
    /\ op = "<<"
    /\ ~lhs.m_error
    /\ lhs.m_val = max
    /\ rhs.m_val = T.bits - 1
    /\ ~failure(ret)
    /\ get(ret) = pow2(T.bits - 1)

\* the exact result of the helper call recorded
ExactOfBuiltin ==
    CASE op = "builtin_add_overflow" -> lhs.m_val + rhs.m_val
      [] op = "builtin_sub_overflow" -> lhs.m_val - rhs.m_val
      [] op = "builtin_mul_overflow" -> lhs.m_val * rhs.m_val

\* C21: builtin_add_overflow, builtin_sub_overflow and builtin_mul_overflow
\* return what __builtin_*_overflow returns on every path, the BSL_PERFORCE
\* branch included: true iff the exact result of lhs op rhs is not
\* representable in T, with the result (wrapped to T) stored in *res
C21_BuiltinsExact ==
    (op \in BuiltinOps)
        => /\ retb <=> (ExactOfBuiltin < min \/ ExactOfBuiltin > max)
           /\ retv = wrap(ExactOfBuiltin)

\* |x|
Abs(x) == IF x < 0 THEN 0 - x ELSE x

\* C22: for unpoisoned a and b with b != 0 and not (a == min() and b == -1),
\* a / b and a % b are unpoisoned, (a / b).get() is the quotient truncated
\* toward zero, (a % b).get() is 0 or has the sign of a, and
\* (a / b) * b + (a % b) == a; the chain ((((4 / 8) + 15) % 16) * 23) - 42
\* of the example converts to true and has get() == 303
C22_DivRemExact ==
    /\ (/\ op \in {"/", "%"}
        /\ ~lhs.m_error
        /\ ~rhs.m_error
        /\ rhs.m_val # 0
        /\ ~(lhs.m_val = min /\ rhs.m_val = 0 - 1))
          => LET l == lhs.m_val
                 r == rhs.m_val
                 q == operator_div(ObjOf(lhs), ObjOf(rhs), 0).obj
                 m == operator_rem(ObjOf(lhs), ObjOf(rhs), 0).obj
             IN  /\ ~failure(ret)
                 /\ ~failure(q)
                 /\ ~failure(m)
                 /\ (op = "/") => ret = q
                 /\ (op = "%") => ret = m
                 /\ Abs(get(q)) * Abs(r) <= Abs(l)
                 /\ Abs(l) < (Abs(get(q)) + 1) * Abs(r)
                 /\ (get(q) # 0) => ((get(q) < 0) <=> ((l < 0) # (r < 0)))
                 /\ (get(m) = 0) \/ ((get(m) < 0) <=> (l < 0))
                 /\ operator_eq(operator_add(operator_mul(q, ObjOf(rhs)), m), ObjOf(lhs))
    /\ (op = "report" /\ as_written) => (retb /\ retv = 303)

C22_Witness ==
    /\ op = "report"
    /\ as_written
    /\ retb
    /\ retv = 303

\* C23: for unsigned T, ~a is max() ^ a: its failure() is a.failure(); for an
\* unpoisoned a, (~a).get() == max() - a.get() and ~(~a) == a
C23_Complement ==
    (op = "~")
        => /\ ret = operator_xor_rs(max, ObjOf(lhs))
           /\ failure(ret) = lhs.m_error
           /\ ~lhs.m_error
                 => /\ get(ret) = max - lhs.m_val
                    /\ operator_eq(operator_not(ret), ObjOf(lhs))

C23_Witness ==
    /\ op = "~"
    /\ ~lhs.m_error
    /\ lhs.m_val \notin {0, max}
    /\ get(ret) = max - lhs.m_val
    /\ ~failure(ret)

\* C24: for unpoisoned a and b, a.max(b) is unpoisoned with the larger value
\* and a.min(b) unpoisoned with the smaller one (equal values give that
\* value), so that a.min(b) <= a.max(b) and each is one of the operands; for
\* a raw v, a.max(v) and a.min(v) are the poisoned zero iff a is poisoned and
\* otherwise the larger/smaller of a's value and v
C24_MinMaxValue ==
    /\ (op \in {"max", "min"} /\ ~lhs.m_error /\ ~rhs.m_error)
          => /\ ~failure(ret)
             /\ get(ret) \in {lhs.m_val, rhs.m_val}
             /\ (op = "max") => (get(ret) >= lhs.m_val /\ get(ret) >= rhs.m_val)
             /\ (op = "min") => (get(ret) <= lhs.m_val /\ get(ret) <= rhs.m_val)
             /\ operator_le(min_safe(ObjOf(lhs), ObjOf(rhs)),
                            max_safe(ObjOf(lhs), ObjOf(rhs)))
    /\ (op \in {"max_raw", "min_raw"})
          => /\ failure(ret) <=> lhs.m_error
             /\ failure(ret) => ret = zero(TRUE)
             /\ ~failure(ret) => get(ret) \in {lhs.m_val, rhs.m_val}
             /\ (~failure(ret) /\ op = "max_raw")
                   => (get(ret) >= lhs.m_val /\ get(ret) >= rhs.m_val)
             /\ (~failure(ret) /\ op = "min_raw")
                   => (get(ret) <= lhs.m_val /\ get(ret) <= rhs.m_val)

C24_Witness ==
    /\ op = "min_raw"
    /\ ~lhs.m_error
    /\ rhs.m_val < lhs.m_val
    /\ ~failure(ret)
    /\ get(ret) = rhs.m_val

\* same failure() and same get()
SameReading(x, y) == failure(x) = failure(y) /\ get(x) = get(y)

\* the recorded call with its raw T wrapped: a op= safe_integral<T>{v},
\* a op safe_integral<T>{v}, safe_integral<T>{v} op a
WrappedForm(u) ==
    LET l == AsSafe(lhs)
        r == AsSafe(rhs)
    IN  CASE op = "+=raw" -> operator_add_assign(l, r)
          [] op = "-=raw" -> operator_sub_assign(l, r)
          [] op = "*=raw" -> operator_mul_assign(l, r)
          [] op = "/=raw" -> operator_div_assign(l, r, u).obj
          [] op = "%=raw" -> operator_rem_assign(l, r, u).obj
          [] op = "&=raw" -> operator_and_assign(l, r)
          [] op = "|=raw" -> operator_or_assign(l, r)
          [] op = "^=raw" -> operator_xor_assign(l, r)
          [] op \in {"+sr", "+rs"} -> operator_add(l, r)
          [] op \in {"-sr", "-rs"} -> operator_sub(l, r)
          [] op \in {"*sr", "*rs"} -> operator_mul(l, r)
          [] op \in {"/sr", "/rs"} -> operator_div(l, r, u).obj
          [] op \in {"%sr", "%rs"} -> operator_rem(l, r, u).obj
          [] op \in {"&sr", "&rs"} -> operator_and(l, r)
          [] op \in {"|sr", "|rs"} -> operator_or(l, r)
          [] op \in {"^sr", "^rs"} -> operator_xor(l, r)

\* the operations of + - * / % & | ^ that take a raw T
RawFormOps ==
    {"+=raw", "-=raw", "*=raw", "/=raw", "%=raw", "&=raw", "|=raw", "^=raw",
     "+sr", "+rs", "-sr", "-rs", "*sr", "*rs", "/sr", "/rs", "%sr", "%rs",
     "&sr", "&rs", "|sr", "|rs", "^sr", "^rs"}

\* C25: for + - * / % (and & | ^ on unsigned T), every a and every raw v,
\* a op= v leaves a with the failure() and get() of a op= safe_integral<T>{v},
\* and a op v, v op a have those of a op safe_integral<T>{v},
\* safe_integral<T>{v} op a
C25_RawAsWrapped ==
    (op \in RawFormOps) => \E u \in Range : SameReading(ret, WrappedForm(u))

C25_Witness ==
    /\ op = "-=raw"
    /\ lhs.m_error
    /\ rhs.m_val # 0
    /\ failure(a)
    /\ SameReading(a, operator_sub_assign(ObjOf(lhs), ctor(rhs.m_val)))

\* the comparisons of the recorded operands
Lt == operator_lt(ObjOf(lhs), ObjOf(rhs))

Le == operator_le(ObjOf(lhs), ObjOf(rhs))

Gt == operator_gt(ObjOf(lhs), ObjOf(rhs))

Ge == operator_ge(ObjOf(lhs), ObjOf(rhs))

Eq == operator_eq(ObjOf(lhs), ObjOf(rhs))

\* C26: for unpoisoned a and b exactly one of a < b, a == b, a > b is true,
\* the one the values give, a <= b equals !(a > b) and a >= b equals
\* !(a < b); when an operand is poisoned a < b, a <= b, a > b, a >= b and
\* a == b are all false
C26_TotalOrder ==
    (op \in {"<", "<=", ">", ">=", "=="})
        => /\ retb = (CASE op = "<" -> Lt [] op = "<=" -> Le [] op = ">" -> Gt
                        [] op = ">=" -> Ge [] op = "==" -> Eq)
           /\ (~lhs.m_error /\ ~rhs.m_error)
                 => /\ Lt <=> (lhs.m_val < rhs.m_val)
                    /\ Eq <=> (lhs.m_val = rhs.m_val)
                    /\ Gt <=> (lhs.m_val > rhs.m_val)
                    /\ Cardinality({r \in {"lt", "eq", "gt"} :
                                       \/ r = "lt" /\ Lt
                                       \/ r = "eq" /\ Eq
                                       \/ r = "gt" /\ Gt}) = 1
                    /\ Le <=> ~Gt
                    /\ Ge <=> ~Lt
           /\ (lhs.m_error \/ rhs.m_error)
                 => (~Lt /\ ~Le /\ ~Gt /\ ~Ge /\ ~Eq)

C26_Witness ==
    /\ op = "<="
    /\ ~lhs.m_error
    /\ rhs.m_error
    /\ lhs.m_val < rhs.m_val
    /\ ~retb
    /\ ~Gt

\* the recorded call with its operands exchanged
Exchanged ==
    LET l == ObjOf(lhs)
        r == ObjOf(rhs)
    IN  CASE op = "+" -> operator_add(r, l)
          [] op = "*" -> operator_mul(r, l)
          [] op = "min" -> min_safe(r, l)
          [] op = "max" -> max_safe(r, l)
          [] op = "&" -> operator_and(r, l)
          [] op = "|" -> operator_or(r, l)
          [] op = "^" -> operator_xor(r, l)

\* C27: for all a and b, poisoned or not, a + b and b + a have the same
\* failure() and the same get(), likewise a * b and b * a, a.min(b) and
\* b.min(a), a.max(b) and b.max(a), and on unsigned T a & b and b & a,
\* a | b and b | a, a ^ b and b ^ a
C27_Commutative ==
    (op \in {"+", "*", "min", "max", "&", "|", "^"}) => SameReading(ret, Exchanged)

C27_Witness ==
    /\ op = "*"
    /\ lhs.m_error
    /\ ~rhs.m_error
    /\ lhs.m_val # rhs.m_val
    /\ failure(ret)
    /\ failure(Exchanged)

\* the recorded a op= a with an independent copy of a as right operand
WithCopy(u) ==
    LET x    == ObjOf(lhs)
        copy == ObjOf(lhs)
    IN  CASE op = "+=self" -> operator_add_assign(x, copy)
          [] op = "-=self" -> operator_sub_assign(x, copy)
          [] op = "*=self" -> operator_mul_assign(x, copy)
          [] op = "/=self" -> operator_div_assign(x, copy, u).obj
          [] op = "%=self" -> operator_rem_assign(x, copy, u).obj

\* C28: a op= a behaves as a op= (an independent copy of a): for unpoisoned
\* a, a += a is poisoned iff 2 * value is out of range and otherwise holds
\* 2 * value, a -= a holds 0 unpoisoned, a /= a holds 1 when value != 0 and
\* is poisoned when value == 0, a %= a holds 0 when value != 0 and is
\* poisoned when value == 0; for poisoned a each leaves a poisoned
C28_SelfCompound ==
    (op \in SelfOps)
        => LET v == lhs.m_val
           IN  /\ \E u \in Range : a = WithCopy(u)
               /\ lhs.m_error => failure(a)
               /\ (~lhs.m_error /\ op = "+=self")
                     => /\ failure(a) <=> (2 * v < min \/ 2 * v > max)
                        /\ ~failure(a) => get(a) = 2 * v
               /\ (~lhs.m_error /\ op = "-=self") => (~failure(a) /\ get(a) = 0)
               /\ (~lhs.m_error /\ op = "/=self")
                     => /\ failure(a) <=> (v = 0)
                        /\ ~failure(a) => get(a) = 1
               /\ (~lhs.m_error /\ op = "%=self")
                     => /\ failure(a) <=> (v = 0)
                        /\ ~failure(a) => get(a) = 0

C28_Witness ==
    /\ op = "/=self"
    /\ ~lhs.m_error
    /\ lhs.m_val = min
    /\ ~failure(a)
    /\ get(a) = 1

\* C30: for every basic_errc_type value success() is true iff the code is
\* T{} (0), failure() == !success(), the conversion to bool is success(),
\* is_checked() is true iff the code is negative and is_unchecked() iff it is
\* positive, so exactly one of success(), is_checked(), is_unchecked() is
\* true; == and != compare the codes, != being the negation of ==
C30_ErrcPredicates ==
    /\ (op = "errc_success") => (retb <=> lhs.m_errc = 0)
    /\ (op = "errc_failure") => (retb <=> ~errc_success(lhs))
    /\ (op = "errc_bool") => (retb <=> errc_success(lhs))
    /\ (op = "errc_is_checked") => (retb <=> lhs.m_errc < 0)
    /\ (op = "errc_is_unchecked") => (retb <=> lhs.m_errc > 0)
    /\ (op = "errc_eq") => (retb <=> lhs.m_errc = rhs.m_errc)
    /\ (op = "errc_ne") => (retb <=> ~errc_eq(lhs, rhs))
    /\ errc_failure(errc) <=> ~errc_success(errc)
    /\ Cardinality({p \in {"success", "checked", "unchecked"} :
                       \/ p = "success" /\ errc_success(errc)
                       \/ p = "checked" /\ errc_is_checked(errc)
                       \/ p = "unchecked" /\ errc_is_unchecked(errc)}) = 1

C30_Witness ==
    /\ op = "errc_failure"
    /\ lhs.m_errc < 0
    /\ retb
    /\ errc_is_checked(errc)
    /\ ~errc_is_unchecked(errc)

\* the handles the constructor obtained from the system
Obtained == {ifmap.m_file, ifmap.m_view} \ {"nullptr", "INVALID_HANDLE_VALUE"}

\* number of CloseHandle calls made with h
TimesClosed(h) == Cardinality({i \in DOMAIN os.closes : os.closes[i] = h})

\* the constructor returned early
FailedConstruction ==
    life.ctor /\ (ifmap.m_view = "nullptr" \/ ifmap.m_data.data = "nullptr")

\* C29: over a constructor followed by the destructor, no handle obtained by
\* the constructor is passed to CloseHandle twice, after the destructor each
\* of them has been closed exactly once and none is open, and after a failed
\* construction empty() is true and the boolean conversion false
C29_HandlesClosedOnce ==
    /\ \A h \in Obtained : TimesClosed(h) <= 1
    /\ life.dtor => (os.open = {} /\ \A h \in Obtained : TimesClosed(h) = 1)
    /\ (FailedConstruction /\ op = "ifmap_empty") => retb
    /\ (FailedConstruction /\ op = "ifmap_bool") => ~retb

====
